---- MODULE Spec2Model ----
(***************************************************************************)
(* A model of the two dashboards of the repository:                        *)
(*   zero.py      the inventory / stock-variance reconciliation script     *)
(*   variance.py  the sales dashboard (loader, Sales Overview page,        *)
(*                Margin Analysis page)                                     *)
(* Each script is a Streamlit program: one run of the script is a          *)
(* straight-line pass over the tables it loaded.  The two scripts share no *)
(* state; SpecZero runs zero.py and holds variance.py idle, the            *)
(* specifications named Spec... run variance.py and hold zero.py idle.     *)
(*                                                                         *)
(* Text is modelled as a sequence of one-character strings, so that        *)
(* str(), strip(), str.contains() and the string order are computed and    *)
(* not assumed.  A table cell that may be empty is NaN (the empty tuple)   *)
(* or Num(v) (the one-element tuple holding v).                            *)
(***************************************************************************)
EXTENDS Integers, Sequences, FiniteSets, TLC

VARIABLES
    \* ---- zero.py ----
    inventory_file,          \* the workbook at inventory_path on disk
    variance_file,           \* the workbook at variance_path on disk
    zpc,                     \* position of the run of zero.py
    df_inventory,
    df_variance,
    merged,
    total_items,
    zero_variance_count,
    missing_variance_count,
    missing_variance_items,
    excel_data,
    exclusion_table,         \* the purchase table handed to the exclusion step
    unmatched_after_exclusion,
    \* ---- variance.py ----
    disk,                    \* the workbook at the path the user may enter
    pc,                      \* position of the run of app()
    file_path,               \* the sidebar's path input of this run
    data_source,             \* "none", "file" or "mock": where df came from
    df_raw,
    df_melted,
    messages,                \* st.info / st.warning / st.error shown this run
    view                     \* what the page function rendered this run

zvars == <<inventory_file, variance_file, zpc, df_inventory, df_variance, merged,
           total_items, zero_variance_count, missing_variance_count,
           missing_variance_items, excel_data,
           exclusion_table, unmatched_after_exclusion>>
vvars == <<disk, pc, file_path, data_source, df_raw, df_melted, messages, view>>
vars == <<zvars, vvars>>

-----------------------------------------------------------------------------
(* Bounds of the model *)

MaxInvRows == 2
MaxVarRows == 2

-----------------------------------------------------------------------------
(* Cells and text *)

NaN == <<>>
Num(v) == <<v>>
IsNaN(c) == c = NaN
Val(c) == c[1]

\* The characters the model uses, in code-point order.
Alphabet ==
    << " ", "#", "%", ",",
       "0", "1", "2", "3", "4", "5", "6", "7", "8", "9",
       "A", "B", "C", "D", "E", "F", "G", "H", "I", "J", "K", "L", "M",
       "N", "O", "P", "Q", "R", "S", "T", "U", "V", "W", "X", "Y", "Z",
       "_",
       "a", "b", "c", "d", "e", "f", "g", "h", "i", "j", "k", "l", "m",
       "n", "o", "p", "q", "r", "s", "t", "u", "v", "w", "x", "y", "z" >>

Chars == {Alphabet[i] : i \in 1..Len(Alphabet)}
Ord == [c \in Chars |-> CHOOSE i \in 1..Len(Alphabet) : Alphabet[i] = c]

IsDigit(c) == Ord[c] >= Ord["0"] /\ Ord[c] <= Ord["9"]
IsUpper(c) == Ord[c] >= Ord["A"] /\ Ord[c] <= Ord["Z"]
IsLower(c) == Ord[c] >= Ord["a"] /\ Ord[c] <= Ord["z"]
IsSpace(c) == c = " "

DigitChar(d) == Alphabet[Ord["0"] + d]
DigitVal(c) == Ord[c] - Ord["0"]

\* str(n) of a non-negative integer
RECURSIVE IntToStr(_)
IntToStr(n) == IF n < 10 THEN <<DigitChar(n)>>
               ELSE Append(IntToStr(n \div 10), DigitChar(n % 10))

\* str.strip()
RECURSIVE LStrip(_)
LStrip(s) == IF s # <<>> /\ IsSpace(Head(s)) THEN LStrip(Tail(s)) ELSE s
RECURSIVE RStrip(_)
RStrip(s) == IF s # <<>> /\ IsSpace(s[Len(s)])
             THEN RStrip(SubSeq(s, 1, Len(s) - 1)) ELSE s
Strip(s) == RStrip(LStrip(s))

\* sub in s
IsPrefix(p, s) == Len(p) <= Len(s) /\ SubSeq(s, 1, Len(p)) = p
Contains(s, sub) ==
    \E i \in 1..(Len(s) + 1) : IsPrefix(sub, SubSeq(s, i, Len(s)))

\* str.lower()
LowerChar(c) == IF IsUpper(c) THEN Alphabet[Ord[c] + (Ord["a"] - Ord["A"])] ELSE c
Lower(s) == [i \in 1..Len(s) |-> LowerChar(s[i])]

\* s < t in Python's string order
RECURSIVE StrLess(_, _)
StrLess(s, t) ==
    IF t = <<>> THEN FALSE
    ELSE IF s = <<>> THEN TRUE
    ELSE IF Head(s) = Head(t) THEN StrLess(Tail(s), Tail(t))
    ELSE Ord[Head(s)] < Ord[Head(t)]

SeqsUpTo(S, n) == UNION {[1..k -> S] : k \in 0..n}

\* df[mask].shape[0]
Count(rows, P(_)) == Len(SelectSeq(rows, P))

-----------------------------------------------------------------------------
(* zero.py: the workbooks *)

\* An item-code cell as Excel holds it: a number or a text.
IntCode(n) == [kind |-> "int", num |-> n, txt |-> <<>>]
StrCode(s) == [kind |-> "str", num |-> 0, txt |-> s]

\* astype(str) of one cell: a number becomes its decimal text, a text is kept
\* as it is (nothing is trimmed).
AsStr(c) == IF c.kind = "int" THEN StrCode(IntToStr(c.num)) ELSE c

VarianceCols ==
    {"Book Stock", "Phys Stock", "Diff Stock", "Book Value", "Phys Value", "Diff Value"}

NoFile == [exists |-> FALSE, rows |-> <<>>]
Workbook(rows) == [exists |-> TRUE, rows |-> rows]

InventoryCodes == {IntCode(1), StrCode(<<"1", " ">>)}
InventoryStocks == {1, 2}
InventoryRow(code, stock) == ("Item Bar Code" :> code) @@ ("Stock" :> Num(stock))
InventoryRows ==
    {InventoryRow(c, s) : c \in InventoryCodes, s \in InventoryStocks}
        \cup {InventoryRow(IntCode(3), 1)}

\* A row of the variance export.  The export states the differences it
\* computed (physical minus book) and values each unit at 3.
CellSub(a, b) == IF IsNaN(a) \/ IsNaN(b) THEN NaN ELSE Num(Val(a) - Val(b))
CellMul(a, k) == IF IsNaN(a) THEN NaN ELSE Num(Val(a) * k)
VarianceCodes == {StrCode(<<"1">>), IntCode(2)}
\* <<book stock, physical stock>> of a row
StockCounts == {<<NaN, Num(2)>>, <<Num(0), Num(0)>>, <<Num(0), Num(2)>>, <<Num(2), Num(2)>>}
VarianceRow(code, book, phys) ==
    ("Barcode" :> code) @@
    ("Book Stock" :> book) @@ ("Phys Stock" :> phys) @@
    ("Diff Stock" :> CellSub(phys, book)) @@
    ("Book Value" :> CellMul(book, 3)) @@ ("Phys Value" :> CellMul(phys, 3)) @@
    ("Diff Value" :> CellMul(CellSub(phys, book), 3))
VarianceRows ==
    {VarianceRow(c, bp[1], bp[2]) : c \in VarianceCodes, bp \in StockCounts}

InventoryFiles == {NoFile} \cup {Workbook(r) : r \in SeqsUpTo(InventoryRows, MaxInvRows)}
VarianceFiles == {NoFile} \cup {Workbook(r) : r \in SeqsUpTo(VarianceRows, MaxVarRows)}

-----------------------------------------------------------------------------
(* zero.py: the run *)

\* df_variance.rename(columns={"Barcode": "Item Bar Code"})
RenameBarcode(row) ==
    [c \in (DOMAIN row \ {"Barcode"}) \cup {"Item Bar Code"} |->
        IF c = "Item Bar Code" THEN row["Barcode"] ELSE row[c]]

\* df[...] = df["Item Bar Code"].astype(str)
KeyAsStr(rows) ==
    [i \in 1..Len(rows) |->
        [rows[i] EXCEPT !["Item Bar Code"] = AsStr(rows[i]["Item Bar Code"])]]

\* pd.merge(left, right[key + six columns], on="Item Bar Code", how="left")
JoinRow(l, r) == l @@ [c \in VarianceCols |-> r[c]]
UnmatchedRow(l) == l @@ [c \in VarianceCols |-> NaN]
KeyMatches(l, right) ==
    SelectSeq(right, LAMBDA r : r["Item Bar Code"] = l["Item Bar Code"])
JoinLeftRow(l, right) ==
    LET found == KeyMatches(l, right)
    IN  IF found = <<>> THEN <<UnmatchedRow(l)>>
        ELSE [j \in 1..Len(found) |-> JoinRow(l, found[j])]
RECURSIVE MergeLeft(_, _)
MergeLeft(left, right) ==
    IF left = <<>> THEN <<>>
    ELSE JoinLeftRow(Head(left), right) \o MergeLeft(Tail(left), right)

\* merged[col] = merged[col].fillna(0), for the six variance columns
FillCellSkipped(c) == c
FillCell(c) == IF IsNaN(c) THEN Num(0) ELSE c
FillNa(rows) ==
    [i \in 1..Len(rows) |->
        [c \in DOMAIN rows[i] |->
            IF c \in VarianceCols THEN FillCell(rows[i][c]) ELSE rows[i][c]]]

\* merged[merged["Diff Stock"] == 0]
HasZeroDiff(row) == row["Diff Stock"] = Num(0)
\* merged[merged["Book Stock"] == 0]
HasZeroBook(row) == row["Book Stock"] = Num(0)

ZeroIdle ==
    /\ zpc = "idle"
    /\ inventory_file = NoFile
    /\ variance_file = NoFile
    /\ df_inventory = <<>>
    /\ df_variance = <<>>
    /\ merged = <<>>
    /\ total_items = 0
    /\ zero_variance_count = 0
    /\ missing_variance_count = 0
    /\ missing_variance_items = <<>>
    /\ excel_data = <<>>
    /\ exclusion_table = NoFile
    /\ unmatched_after_exclusion = <<>>

ZeroStart ==
    /\ zpc = "start"
    /\ inventory_file \in InventoryFiles
    /\ variance_file \in VarianceFiles
    /\ df_inventory = <<>>
    /\ df_variance = <<>>
    /\ merged = <<>>
    /\ total_items = 0
    /\ zero_variance_count = 0
    /\ missing_variance_count = 0
    /\ missing_variance_items = <<>>
    /\ excel_data = <<>>
    /\ exclusion_table = NoFile
    /\ unmatched_after_exclusion = <<>>

\* pd.read_excel of both workbooks; a workbook that cannot be opened raises
\* and the script stops there.
ReadExcel ==
    /\ zpc = "start"
    /\ IF inventory_file.exists /\ variance_file.exists
       THEN /\ df_inventory' = inventory_file.rows
            /\ df_variance' = variance_file.rows
            /\ zpc' = "loaded"
       ELSE /\ UNCHANGED <<df_inventory, df_variance>>
            /\ zpc' = "crashed"
    /\ UNCHANGED <<inventory_file, variance_file, merged, total_items,
                   zero_variance_count, missing_variance_count,
                   missing_variance_items, excel_data>>
    /\ UNCHANGED <<exclusion_table, unmatched_after_exclusion>>
    /\ UNCHANGED vvars

\* DATA PREPARATION: rename, astype(str), merge, fillna
DataPreparation ==
    /\ zpc = "loaded"
    /\ df_inventory' = KeyAsStr(df_inventory)
    /\ df_variance' = KeyAsStr([i \in 1..Len(df_variance) |-> RenameBarcode(df_variance[i])])
    /\ merged' = FillNa(MergeLeft(df_inventory', df_variance'))
    /\ zpc' = "merged"
    /\ UNCHANGED <<inventory_file, variance_file, total_items, zero_variance_count,
                   missing_variance_count, missing_variance_items, excel_data>>
    /\ UNCHANGED <<exclusion_table, unmatched_after_exclusion>>
    /\ UNCHANGED vvars

\* KEY INSIGHTS: the counts the page writes
KeyInsights ==
    /\ zpc = "merged"
    /\ total_items' = Len(merged)
    /\ zero_variance_count' = Count(merged, HasZeroDiff)
    /\ missing_variance_count' = Count(merged, HasZeroBook)
    /\ zpc' = "insights"
    /\ UNCHANGED <<inventory_file, variance_file, df_inventory, df_variance, merged,
                   missing_variance_items, excel_data>>
    /\ UNCHANGED <<exclusion_table, unmatched_after_exclusion>>
    /\ UNCHANGED vvars

\* The table of items missing from the variance file, and the download
MissingTableAndDownload ==
    /\ zpc = "insights"
    /\ missing_variance_items' = SelectSeq(merged, HasZeroBook)
    /\ excel_data' = merged
    /\ zpc' = "done"
    /\ UNCHANGED <<inventory_file, variance_file, df_inventory, df_variance, merged,
                   total_items, zero_variance_count, missing_variance_count>>
    /\ UNCHANGED <<exclusion_table, unmatched_after_exclusion>>
    /\ UNCHANGED vvars

\* The exclusion step of the reconciliation.  zero.py stops at the table of
\* missing items; the step that takes a purchase table is written down in the
\* reconciliation contract only, and is modelled from it: the item code is the
\* key, as trimmed text, and a row of the unmatched table whose code is in the
\* purchase table is removed.  No table supplied removes nothing.
NormalizedCode(c) == Strip(AsStr(c).txt)
PurchaseCodes == {StrCode(<<"1">>), IntCode(3)}
PurchaseRow(code) == "Item Bar Code" :> code
PurchaseFiles ==
    {NoFile} \cup {Workbook(<<PurchaseRow(c)>>) : c \in PurchaseCodes}
            \cup {Workbook(<<PurchaseRow(StrCode(<<"1">>)), PurchaseRow(IntCode(3))>>)}
ExclusionCodes(table) ==
    {NormalizedCode(table.rows[k]["Item Bar Code"]) : k \in 1..Len(table.rows)}
NotPurchased(row, table) ==
    NormalizedCode(row["Item Bar Code"]) \notin ExclusionCodes(table)
ExcludePurchased(unmatched, table) ==
    SelectSeq(unmatched, LAMBDA row : NotPurchased(row, table))

Exclusion(table) ==
    /\ zpc = "done"
    /\ exclusion_table' = table
    /\ unmatched_after_exclusion' = ExcludePurchased(missing_variance_items, table)
    /\ zpc' = "excluded"
    /\ UNCHANGED <<inventory_file, variance_file, df_inventory, df_variance, merged,
                   total_items, zero_variance_count, missing_variance_count,
                   missing_variance_items, excel_data>>
    /\ UNCHANGED vvars

ApplyExclusion == \E table \in PurchaseFiles : Exclusion(table)

ZeroNext ==
    \/ ReadExcel
    \/ DataPreparation
    \/ KeyInsights
    \/ MissingTableAndDownload
    \/ ApplyExclusion

-----------------------------------------------------------------------------
(* variance.py: the workbook and the mock data *)

MaxItems == 2

\* The columns every sales workbook has are fields of an item (Group, Stock
\* and Pack_Qty, which no property here reads, are left out); the other
\* columns are `cols` (the headers as the workbook spells them) and, per item,
\* `vals` (one cell per header).
SalesItem(code, name, category, brand, cost, selling, vals) ==
    [Item_Bar_Code |-> code, Item_Name |-> name, Category |-> category,
     Brand |-> brand, Cost |-> cost, Selling |-> selling, vals |-> vals]

NoSalesFile == [exists |-> FALSE, cols |-> <<>>, rows |-> <<>>]
SalesWorkbook(cols, rows) == [exists |-> TRUE, cols |-> cols, rows |-> rows]

\* create_mock_data(), abridged to one of its 50 items: clean headers, three
\* months of 2025, a selling price above the cost, a category and a brand out
\* of the lists the generator draws from.
MockData ==
    SalesWorkbook(
        <<<<"J", "a", "n", "_", "2", "0", "2", "5">>, <<"F", "e", "b", "_", "2", "0", "2", "5">>, <<"M", "a", "r", "_", "2", "0", "2", "5">>>>,
        <<SalesItem(<<"I", "T", "E", "M", "0", "0", "1">>, <<"P", "r", "o", "d", "u", "c", "t", " ", "1">>, "Electronics", "Brand A",
                    Num(50), Num(100), <<Num(100), Num(0), Num(200)>>)>>)

\* The path the sidebar offers by default, and a path the user typed.
DefaultPath == "ItemSearchList.xlsx"
UserPath == "sales.xlsx"
FilePaths == {DefaultPath, UserPath}

-----------------------------------------------------------------------------
(* variance.py: load_and_preprocess_data *)

\* df.columns.str.strip().str.replace(' ', '_').str.replace('[^A-Za-z0-9_%,]', '')
ReplaceSpaces(s) == [i \in 1..Len(s) |-> IF s[i] = " " THEN "_" ELSE s[i]]
IsHeaderChar(c) == IsUpper(c) \/ IsLower(c) \/ IsDigit(c) \/ c \in {"_", "%", ","}
CleanHeader(h) == SelectSeq(ReplaceSpaces(Strip(h)), IsHeaderChar)

MonthAbbr == <<<<"J", "a", "n">>,
              <<"F", "e", "b">>,
              <<"M", "a", "r">>,
              <<"A", "p", "r">>,
              <<"M", "a", "y">>,
              <<"J", "u", "n">>,
              <<"J", "u", "l">>,
              <<"A", "u", "g">>,
              <<"S", "e", "p">>,
              <<"O", "c", "t">>,
              <<"N", "o", "v">>,
              <<"D", "e", "c">>>>

\* any(month in col for month in ['Jan', ..., 'Dec'])
IsMonthlyCol(col) == \E m \in 1..Len(MonthAbbr) : Contains(col, MonthAbbr[m])

\* pd.to_numeric(..., errors='coerce').fillna(0) of a monthly cell
MonthlyCell(c) == FillCell(c)

RECURSIVE SumCells(_)
SumCells(cells) ==
    IF cells = <<>> THEN 0 ELSE Val(FillCell(Head(cells))) + SumCells(Tail(cells))

\* A percentage is the exact fraction n/d with d >= 0; d = 0 with n > 0 is
\* +infinity.  Frac(n, d) of integers normalises the sign of d.
Frac(n, d) == IF d < 0 THEN [n |-> -n, d |-> -d] ELSE [n |-> n, d |-> d]
FracGE(m, k) == m.n >= k * m.d
FracLT(m, k) == m.n < k * m.d

\* ((Selling - Cost) / Selling).clip(lower=0) * 100
ClipLower(m) == IF m.n < 0 THEN [n |-> 0, d |-> 1] ELSE m
MarginRecalc(cost, selling) ==
    IF IsNaN(cost) \/ IsNaN(selling) THEN NaN
    ELSE IF Val(selling) = 0 /\ Val(selling) - Val(cost) = 0 THEN NaN
    ELSE IF Val(selling) = 0
         THEN Num(ClipLower([n |-> IF Val(cost) < 0 THEN 1 ELSE -1, d |-> 0]))
    ELSE Num(ClipLower(Frac(100 * (Val(selling) - Val(cost)), Val(selling))))

\* df_melted['Sales_Month'].str.replace('_', ', ')
RECURSIVE SalesMonthLabel(_)
SalesMonthLabel(col) ==
    IF col = <<>> THEN <<>>
    ELSE (IF Head(col) = "_" THEN <<",", " ">> ELSE <<Head(col)>>)
         \o SalesMonthLabel(Tail(col))

\* pd.to_datetime(label, format='%b, %Y'): three letters of a month, ", ",
\* four digits; anything else raises.
MonthNumber(abbr) ==
    CHOOSE m \in 1..Len(MonthAbbr) : Lower(MonthAbbr[m]) = Lower(abbr)
ParsesAsDate(label) ==
    /\ Len(label) = 9
    /\ \E m \in 1..Len(MonthAbbr) : Lower(MonthAbbr[m]) = Lower(SubSeq(label, 1, 3))
    /\ label[4] = "," /\ label[5] = " "
    /\ \A i \in 6..9 : IsDigit(label[i])
YearOf(digits) ==
    ((DigitVal(digits[1]) * 10 + DigitVal(digits[2])) * 10 + DigitVal(digits[3])) * 10
        + DigitVal(digits[4])
\* the month as a number of months, which orders dates as datetimes order
ToDatetime(label) == YearOf(SubSeq(label, 6, 9)) * 12 + MonthNumber(SubSeq(label, 1, 3))

DateCell(label) == [kind |-> "date", ym |-> ToDatetime(label), txt |-> <<>>]
TextCell(label) == [kind |-> "str", ym |-> 0, txt |-> label]

\* The rows of the long table: for each monthly column in column order, one
\* row per item in item order (DataFrame.melt).
MeltedRow(item, col, value, parsed) ==
    [Item_Bar_Code |-> item.Item_Bar_Code, Item_Name |-> item.Item_Name,
     Category |-> item.Category, Brand |-> item.Brand,
     Margin_Percent |-> item.Margin_Percent,
     Sales_Month |-> SalesMonthLabel(col),
     Monthly_Sales_Value |-> value,
     Date_Sort |-> IF parsed THEN DateCell(SalesMonthLabel(col))
                   ELSE TextCell(SalesMonthLabel(col))]

RECURSIVE Flatten(_)
Flatten(seqs) == IF seqs = <<>> THEN <<>> ELSE Head(seqs) \o Flatten(Tail(seqs))

\* Lines 125-173 on the table that was read: clean the headers, find the
\* monthly columns, recompute the margin and the total, melt.
Preprocess(df) ==
    LET cols == [i \in 1..Len(df.cols) |-> CleanHeader(df.cols[i])]
        monthly == SelectSeq([i \in 1..Len(cols) |-> i], LAMBDA i : IsMonthlyCol(cols[i]))
        total(it) == SumCells([k \in 1..Len(monthly) |-> it.vals[monthly[k]]])
        raw == [r \in 1..Len(df.rows) |->
                  LET it == df.rows[r] IN
                  [Item_Bar_Code |-> it.Item_Bar_Code, Item_Name |-> it.Item_Name,
                   Category |-> it.Category, Brand |-> it.Brand,
                   Cost |-> it.Cost, Selling |-> it.Selling,
                   vals |-> [i \in 1..Len(cols) |->
                               IF cols[i] = <<"T", "o", "t", "a", "l", "_", "S", "a", "l", "e", "s">> THEN Num(total(it))
                               ELSE IF IsMonthlyCol(cols[i]) THEN MonthlyCell(it.vals[i])
                               ELSE it.vals[i]],
                   Margin_Percent |-> MarginRecalc(it.Cost, it.Selling),
                   Total_Sales |-> total(it)]]
        parsed == \A k \in 1..Len(monthly) : ParsesAsDate(SalesMonthLabel(cols[monthly[k]]))
        melted == Flatten([k \in 1..Len(monthly) |->
                     [r \in 1..Len(raw) |->
                        MeltedRow(raw[r], cols[monthly[k]],
                                  Val(raw[r].vals[monthly[k]]), parsed)]])
    IN  [cols |-> cols, df |-> raw, df_melted |-> melted, parsed |-> parsed]

-----------------------------------------------------------------------------
(* variance.py: the sidebar inputs *)

\* What the user may type in "Search Item (Barcode or Name)".
SearchTerms == {<<>>, <<"1">>, <<"p", "e", "n", " ">>, <<"A", "1">>, <<"z", "z">>}

\* margin_groups, in the order of the dict
MarginGroups ==
    << [name |-> "Critical (< 5%)", min |-> 0, max |-> 5],
       [name |-> "Low (5% to 10%)", min |-> 5, max |-> 10],
       [name |-> "Medium (10% to 20%)", min |-> 10, max |-> 20],
       [name |-> "Good (20% to 30%)", min |-> 20, max |-> 30],
       [name |-> "Excellent (30%+ )", min |-> 30, max |-> 1000] >>
GroupNames == {MarginGroups[g].name : g \in 1..Len(MarginGroups)}
DefaultGroups == {"Critical (< 5%)", "Medium (10% to 20%)", "Excellent (30%+ )"}
\* The selections of the multiselect the model tries: none, each group alone,
\* the default three, all five.
GroupSelections ==
    {{}, DefaultGroups, GroupNames} \cup {{n} : n \in GroupNames}

-----------------------------------------------------------------------------
(* variance.py: the pages *)

NoView ==
    [page |-> "none", kind |-> "none",
     search_term |-> <<>>, selected_categories |-> {}, selected_brands |-> {},
     selected_groups |-> {},
     item_data |-> <<>>, item_monthly_sales |-> <<>>,
     df_filtered |-> <<>>, total_sales |-> 0, monthly_sales |-> <<>>,
     df_margin |-> <<>>, df_filtered_margin |-> <<>>]

\* Date_Sort of one row before that of another (all datetimes, or all text)
DateSortLess(a, b) ==
    IF a.kind = "date" THEN a.ym < b.ym ELSE StrLess(a.txt, b.txt)

\* sort_values(by='Date_Sort'), rows with equal keys kept in their order
RECURSIVE InsertByDate(_, _)
InsertByDate(row, sorted) ==
    IF sorted = <<>> THEN <<row>>
    ELSE IF DateSortLess(row.Date_Sort, Head(sorted).Date_Sort) THEN <<row>> \o sorted
    ELSE <<Head(sorted)>> \o InsertByDate(row, Tail(sorted))
RECURSIVE SortByDate(_)
SortByDate(rows) ==
    IF rows = <<>> THEN <<>>
    ELSE InsertByDate(rows[Len(rows)], SortByDate(SubSeq(rows, 1, Len(rows) - 1)))

RECURSIVE SumSales(_)
SumSales(rows) ==
    IF rows = <<>> THEN 0 ELSE Head(rows).Monthly_Sales_Value + SumSales(Tail(rows))

\* df_filtered.groupby('Date_Sort').agg({'Monthly_Sales_Value': 'sum',
\* 'Sales_Month': 'first'}).sort_values(by='Date_Sort')
RECURSIVE GroupByDate(_)
GroupByDate(sorted) ==
    IF sorted = <<>> THEN <<>>
    ELSE LET key == Head(sorted).Date_Sort
             same == SelectSeq(sorted, LAMBDA r : r.Date_Sort = key)
             rest == SelectSeq(sorted, LAMBDA r : r.Date_Sort # key)
         IN  <<[Date_Sort |-> key, Sales_Month |-> Head(sorted).Sales_Month,
                Monthly_Sales_Value |-> SumSales(same)]>> \o GroupByDate(rest)
MonthlySales(rows) == GroupByDate(SortByDate(rows))

\* The mask of search_df: str.contains(search_term, case=False) on the
\* barcode or on the name.
SearchMatches(row, term) ==
    \/ Contains(Lower(row.Item_Bar_Code), Lower(term))
    \/ Contains(Lower(row.Item_Name), Lower(term))

\* The mask of df_filtered
PassesFiltersCategoryOnly(row, categories, brands) == row.Category \in categories
PassesFilters(row, categories, brands) ==
    row.Category \in categories /\ row.Brand \in brands

\* One group's mask on a margin (a comparison with NaN is False)
GroupFilterClosedTop(m, g) ==
    /\ ~IsNaN(m)
    /\ FracGE(Val(m), g.min) /\ FracLT(Val(m), g.max)
GroupFilter(m, g) ==
    /\ ~IsNaN(m)
    /\ IF g.name = "Excellent (30%+ )" THEN FracGE(Val(m), g.min)
       ELSE FracGE(Val(m), g.min) /\ FracLT(Val(m), g.max)

\* The loop over the selected groups: every group whose mask holds writes its
\* name, the last one to write wins.
RECURSIVE MarginGroupOf(_, _, _)
MarginGroupOf(m, groups, label) ==
    IF groups = <<>> THEN label
    ELSE MarginGroupOf(m, Tail(groups),
                       IF GroupFilter(m, Head(groups)) THEN Head(groups).name ELSE label)
FilterCondition(m, groups) ==
    \E g \in 1..Len(groups) : GroupFilter(m, groups[g])

AllOf(rows, field) == {rows[i][field] : i \in 1..Len(rows)}

\* app(), lines 514-525: the path input and load_and_preprocess_data
AppLoad(path) ==
    /\ pc = "idle"
    /\ LET attempt == path \notin {DefaultPath, ""}
           opened == attempt /\ disk.exists
           loaded == Preprocess(IF opened THEN disk ELSE MockData)
       IN  /\ file_path' = path
           /\ data_source' = IF opened THEN "file" ELSE "mock"
           /\ df_raw' = loaded.df
           /\ df_melted' = loaded.df_melted
           /\ messages' =
                (IF attempt THEN {"info: attempting to read file from path"} ELSE {})
                \cup (IF attempt /\ ~disk.exists
                      THEN {"warning: failed to load file from path, falling back to mock data"}
                      ELSE {})
                \cup (IF ~opened THEN {"info: using mock data"} ELSE {})
                \cup (IF ~loaded.parsed
                      THEN {"warning: could not parse all month columns"} ELSE {})
    /\ view' = NoView
    /\ pc' = "loaded"
    /\ UNCHANGED <<disk, zvars>>

\* main_dashboard(df_raw, df_melted)
MainDashboard(typed, categories, brands) ==
    /\ pc = "loaded"
    /\ categories \subseteq AllOf(df_raw, "Category")
    /\ brands \subseteq AllOf(df_raw, "Brand")
    /\ LET search_term == Strip(typed)
           search_df == SelectSeq(df_raw, LAMBDA r : SearchMatches(r, search_term))
           inputs == [NoView EXCEPT !.page = "sales", !.search_term = search_term,
                                    !.selected_categories = categories,
                                    !.selected_brands = brands]
           df_filtered == SelectSeq(df_melted,
                                    LAMBDA r : PassesFilters(r, categories, brands))
           not_found == IF search_term # <<>>
                        THEN {"warning: no item found matching the search"} ELSE {}
       IN  IF search_term # <<>> /\ search_df # <<>>
           THEN /\ view' = [inputs EXCEPT
                              !.kind = "item details",
                              !.item_data = <<search_df[1]>>,
                              !.item_monthly_sales =
                                  SortByDate(SelectSeq(df_melted,
                                      LAMBDA r : r.Item_Bar_Code = search_df[1].Item_Bar_Code))]
                /\ UNCHANGED messages
           ELSE IF df_filtered = <<>>
           THEN /\ view' = [inputs EXCEPT !.kind = "empty"]
                /\ messages' = messages \cup not_found
                                \cup {"info: no data matches the selected filters"}
           ELSE /\ view' = [inputs EXCEPT
                              !.kind = "dashboard",
                              !.df_filtered = df_filtered,
                              !.total_sales = SumSales(df_filtered),
                              !.monthly_sales = MonthlySales(df_filtered)]
                /\ messages' = messages \cup not_found
    /\ pc' = "rendered"
    /\ UNCHANGED <<disk, file_path, data_source, df_raw, df_melted, zvars>>

\* df_raw.copy(): a table of its own holding the same rows.  A table bound
\* to a second name without a copy is the same table under both names, and an
\* assignment through one name shows through the other.
SameTable(df) == [rows |-> df, shared |-> TRUE]
Copy(df) == [rows |-> df, shared |-> FALSE]

\* margin_analysis_page(df_raw).  The column Margin_Group is written to
\* df_margin before the page looks at the selection.
MarginAnalysisPage(selected) ==
    /\ pc = "loaded"
    /\ LET groups == SelectSeq(MarginGroups, LAMBDA g : g.name \in selected)
           copied == Copy(df_raw)
           df_margin == [i \in 1..Len(copied.rows) |->
                           copied.rows[i] @@
                           [Margin_Group |->
                               MarginGroupOf(copied.rows[i].Margin_Percent, groups, "Other")]]
           inputs == [NoView EXCEPT !.page = "margin", !.selected_groups = selected]
       IN  /\ df_raw' = IF copied.shared THEN df_margin ELSE df_raw
           /\ IF selected = {}
              THEN /\ view' = [inputs EXCEPT !.kind = "no groups"]
                   /\ messages' = messages \cup
                        {"warning: select at least one margin group"}
              ELSE /\ view' = [inputs EXCEPT
                                 !.kind = "margin",
                                 !.df_margin = df_margin,
                                 !.df_filtered_margin =
                                     SelectSeq(df_margin,
                                         LAMBDA r : FilterCondition(r.Margin_Percent, groups))]
                   /\ UNCHANGED messages
    /\ pc' = "rendered"
    /\ UNCHANGED <<disk, file_path, data_source, df_melted, zvars>>

\* A widget changed, or the page was opened again: Streamlit discards the page
\* and runs app() from its first line, with fresh locals.
Rerun ==
    /\ pc = "rendered"
    /\ pc' = "idle"
    /\ file_path' = ""
    /\ data_source' = "none"
    /\ df_raw' = <<>>
    /\ df_melted' = <<>>
    /\ messages' = {}
    /\ view' = NoView
    /\ UNCHANGED <<disk, zvars>>

-----------------------------------------------------------------------------
(* variance.py: the workbooks the runs start from *)

\* Headers as workbooks spell them.
MonthYearLayout == <<<<"F", "e", "b", " ", "2", "0", "2", "5">>, <<"J", "a", "n", " ", "2", "0", "2", "5">>, <<"D", "e", "c", " ", "2", "0", "2", "4">>>>
MonthOnlyLayout == <<<<"J", "a", "n">>, <<"F", "e", "b">>, <<"A", "p", "r">>>>
MarginLayout == <<<<"J", "a", "n", " ", "2", "0", "2", "5">>, <<"F", "e", "b", " ", "2", "0", "2", "5">>, <<"M", "a", "r", "g", "i", "n">>>>
StaleTotalLayout == <<<<"T", "o", "t", "a", "l", " ", "S", "a", "l", "e", "s">>, <<"M", "a", "r", " ", "2", "0", "2", "5">>, <<"A", "p", "r", " ", "2", "0", "2", "5">>>>
Layouts == {MonthYearLayout, MonthOnlyLayout, MarginLayout, StaleTotalLayout}

\* The item code and name of the i-th row of a workbook whose rows differ in
\* their figures: A1, B2, ... and Pen.
RowCode(i) == <<Alphabet[Ord["A"] + (i - 1)], DigitChar(i)>>
PlainItem(i, cost, selling, vals) ==
    SalesItem(RowCode(i), <<"P", "e", "n">>, "Food", "Acme", cost, selling, vals)

\* Workbooks that differ in their value columns and cells.
SalesCells == {NaN, Num(100)}
LayoutFiles ==
    UNION {
        {SalesWorkbook(l, [i \in 1..k |-> PlainItem(i, Num(50), Num(100), v[i])]) :
            k \in 0..MaxItems, v \in [1..MaxItems -> [1..Len(l) -> SalesCells]]} :
        l \in Layouts}

\* Workbooks that differ in their prices: <<Cost, Selling>> of a row.
PricePoints ==
    { <<Num(100000), Num(100000)>>, <<Num(95001), Num(100000)>>,
      <<Num(95000), Num(100000)>>, <<Num(90001), Num(100000)>>,
      <<Num(90000), Num(100000)>>, <<Num(80000), Num(100000)>>,
      <<Num(70000), Num(100000)>>, <<Num(100001), Num(100000)>>,
      <<Num(1), Num(0)>>, <<Num(10), Num(-1)>>, <<Num(100000), NaN>> }
PriceFiles ==
    {SalesWorkbook(MonthYearLayout,
                   [i \in 1..k |-> PlainItem(i, p[i][1], p[i][2],
                                             <<Num(100), Num(100), Num(100)>>)]) :
        k \in 0..MaxItems, p \in [1..MaxItems -> PricePoints]}

\* Workbooks that differ in what the search and the filters read.
SearchCodes == {<<"A", "1">>, <<"B", "1", "2">>}
SearchNames == {<<"P", "e", "n">>, <<"C", "a", "p">>}
SearchCategories == {"Food", "Toys"}
SearchItems ==
    {SalesItem(c, n, g, "Acme", Num(50), Num(100), <<Num(100), NaN, Num(100)>>) :
        c \in SearchCodes, n \in SearchNames, g \in SearchCategories}
SearchFiles ==
    {SalesWorkbook(MonthYearLayout, r) : r \in SeqsUpTo(SearchItems, MaxItems)}

SalesFiles == {NoSalesFile} \cup LayoutFiles \cup PriceFiles \cup SearchFiles

Categories == SearchCategories \cup {"Electronics"}
Brands == {"Acme", "Brand A"}

-----------------------------------------------------------------------------
(* variance.py: the runs *)

AppIdle ==
    /\ pc = "idle"
    /\ file_path = ""
    /\ data_source = "none"
    /\ df_raw = <<>>
    /\ df_melted = <<>>
    /\ messages = {}
    /\ view = NoView

\* The workbook at the user's path: none, or one of a family of workbooks.
InitMonthly == disk \in {NoSalesFile} \cup LayoutFiles /\ AppIdle /\ ZeroIdle
InitMargin == disk \in {NoSalesFile} \cup PriceFiles /\ AppIdle /\ ZeroIdle
InitSearch == disk \in {NoSalesFile} \cup SearchFiles /\ AppIdle /\ ZeroIdle

Load == \E path \in FilePaths : AppLoad(path)
SalesOverview ==
    \E typed \in SearchTerms, categories \in SUBSET Categories, brands \in SUBSET Brands :
        MainDashboard(typed, categories, brands)
MarginAnalysis == \E selected \in GroupSelections : MarginAnalysisPage(selected)

NextApp ==
    \/ Load
    \/ SalesOverview
    \/ MarginAnalysis
    \/ Rerun

SpecMonthly == InitMonthly /\ [][NextApp]_vars
SpecMargin == InitMargin /\ [][NextApp]_vars
SpecSearch == InitSearch /\ [][NextApp]_vars

-----------------------------------------------------------------------------
(* zero.py: the specification *)

InitZero == ZeroStart /\ disk = NoSalesFile /\ AppIdle
SpecZero == InitZero /\ [][ZeroNext]_vars

-----------------------------------------------------------------------------
(* zero.py: properties *)

ZeroMerged == zpc \in {"merged", "insights", "done", "excluded"}

\* The inventory row has no row of the variance workbook with its item code
\* (the codes compared as the join compares them, as text).
NoVarianceMatch(row) ==
    \A k \in 1..Len(variance_file.rows) :
        AsStr(variance_file.rows[k]["Barcode"]) # row["Item Bar Code"]

\* C1: every row of the inventory workbook is a row of the merged table with
\* its stock as the workbook holds it and its item code as text, and every
\* merged row whose item code no variance row carries has 0 in all six
\* variance columns.
C1_InventoryKeptUnmatchedZero ==
    ZeroMerged =>
        /\ \A i \in 1..Len(inventory_file.rows) :
              \E j \in 1..Len(merged) :
                 /\ merged[j]["Item Bar Code"] = AsStr(inventory_file.rows[i]["Item Bar Code"])
                 /\ merged[j]["Stock"] = inventory_file.rows[i]["Stock"]
        /\ \A j \in 1..Len(merged) :
              /\ DOMAIN merged[j] = {"Item Bar Code", "Stock"} \cup VarianceCols
              /\ \E i \in 1..Len(inventory_file.rows) :
                    /\ merged[j]["Item Bar Code"] = AsStr(inventory_file.rows[i]["Item Bar Code"])
                    /\ merged[j]["Stock"] = inventory_file.rows[i]["Stock"]
              /\ NoVarianceMatch(merged[j]) =>
                    \A c \in VarianceCols : merged[j][c] = Num(0)

\* A run that merged an unmatched inventory row and a matched one whose
\* variance row states a book value, from a variance workbook with rows.
C1_Witness ==
    /\ zpc = "done"
    /\ \E j \in 1..Len(merged) : NoVarianceMatch(merged[j])
    /\ \E j \in 1..Len(merged) :
          ~NoVarianceMatch(merged[j]) /\ merged[j]["Book Value"] = Num(6)
    /\ Len(variance_file.rows) = MaxVarRows

\* C2: a merged row is reported as missing from the stock variance file, in
\* the count and in the table, exactly when no variance row carries its item
\* code.
C2_MissingIffNoMatch ==
    zpc = "done" =>
        /\ missing_variance_items = SelectSeq(merged, NoVarianceMatch)
        /\ missing_variance_count = Count(merged, NoVarianceMatch)

\* C3: no merged row is counted both as a zero-variance item and as an item
\* missing from the variance file.
C3_CountsDisjoint ==
    zpc \in {"insights", "done"} =>
        /\ \A j \in 1..Len(merged) : ~(HasZeroDiff(merged[j]) /\ HasZeroBook(merged[j]))
        /\ zero_variance_count + missing_variance_count <= total_items

\* C11: an inventory row and a variance row whose item codes are equal as
\* trimmed text are joined: the merged table has a row with the inventory
\* row's code and stock and that variance row's six fields.
C11_JoinOnNormalizedCode ==
    ZeroMerged =>
        \A i \in 1..Len(inventory_file.rows) :
            \A k \in 1..Len(variance_file.rows) :
                (NormalizedCode(inventory_file.rows[i]["Item Bar Code"])
                    = NormalizedCode(variance_file.rows[k]["Barcode"]))
                => \E j \in 1..Len(merged) :
                      /\ merged[j]["Item Bar Code"] = AsStr(inventory_file.rows[i]["Item Bar Code"])
                      /\ merged[j]["Stock"] = inventory_file.rows[i]["Stock"]
                      /\ \A c \in VarianceCols :
                            merged[j][c] = FillCell(variance_file.rows[k][c])

\* The item code of the row is one of the codes of the purchase table
CodeExcluded(row) ==
    \E k \in 1..Len(exclusion_table.rows) :
        NormalizedCode(exclusion_table.rows[k]["Item Bar Code"])
            = NormalizedCode(row["Item Bar Code"])

\* C12: with a purchase table supplied, the unmatched-after-exclusion table
\* is the inventory rows without a
\* variance match, less those whose item code is in the purchase table, and
\* excluding once more with the same table changes nothing.
C12_ExclusionIsSetDifference ==
    (zpc = "excluded" /\ exclusion_table.exists) =>
        /\ unmatched_after_exclusion =
              SelectSeq(SelectSeq(merged, NoVarianceMatch),
                        LAMBDA row : ~CodeExcluded(row))
        /\ ExcludePurchased(unmatched_after_exclusion, exclusion_table)
              = unmatched_after_exclusion

-----------------------------------------------------------------------------
(* variance.py: properties *)

Loaded == pc \in {"loaded", "rendered"}
LoadedFromFile == Loaded /\ data_source = "file"

\* A header that names a month: a month's three letters, alone or followed by
\* "_" and a four-digit year.
IsMonthHeader(col) ==
    /\ Len(col) \in {3, 8}
    /\ \E m \in 1..Len(MonthAbbr) : MonthAbbr[m] = SubSeq(col, 1, 3)
    /\ Len(col) = 8 => col[4] = "_" /\ \A i \in 5..8 : IsDigit(col[i])

\* The cells of a workbook row under the headers that name a month
MonthCells(file, r) ==
    LET months == SelectSeq([i \in 1..Len(file.cols) |-> i],
                            LAMBDA i : IsMonthHeader(CleanHeader(file.cols[i])))
    IN  [k \in 1..Len(months) |-> file.rows[r].vals[months[k]]]

\* C4: after the load, Total_Sales of every item is the sum of the row's
\* monthly sales cells (an empty cell counting 0) and of no other cell,
\* whatever Total Sales the workbook carried and whatever other columns it has.
C4_TotalIsSumOfMonths ==
    LoadedFromFile =>
        /\ Len(df_raw) = Len(disk.rows)
        /\ \A r \in 1..Len(df_raw) :
              df_raw[r].Total_Sales = SumCells(MonthCells(disk, r))

\* The month a Sales_Month label names, as a number of months (a label
\* without a year counts its month within one year).
NamesMonth(label) ==
    \/ ParsesAsDate(label)
    \/ Len(label) = 3 /\ \E m \in 1..Len(MonthAbbr) : MonthAbbr[m] = label
MonthOf(label) ==
    IF Len(label) = 3 THEN MonthNumber(label) ELSE ToDatetime(label)
Chronological(series) ==
    \A a, b \in 1..Len(series) :
        (/\ a < b
         /\ NamesMonth(series[a].Sales_Month) /\ NamesMonth(series[b].Sales_Month)
         /\ Len(series[a].Sales_Month) = Len(series[b].Sales_Month))
        => MonthOf(series[a].Sales_Month) <= MonthOf(series[b].Sales_Month)

\* C7: the monthly series of the item shown, and the monthly trend of the
\* dashboard, run in the order of the calendar.
C7_SeriesChronological ==
    pc = "rendered" =>
        /\ Chronological(view.item_monthly_sales)
        /\ Chronological(view.monthly_sales)

\* C5: with all five groups selected, every item with a numeric margin gets
\* the one group whose range holds the margin, lower bound included, upper
\* bound excluded, the top group without an upper bound; never 'Other'.
GroupClaimed(m) ==
    IF FracLT(m, 5) THEN "Critical (< 5%)"
    ELSE IF FracLT(m, 10) THEN "Low (5% to 10%)"
    ELSE IF FracLT(m, 20) THEN "Medium (10% to 20%)"
    ELSE IF FracLT(m, 30) THEN "Good (20% to 30%)"
    ELSE "Excellent (30%+ )"
C5_ExactlyOneGroup ==
    (pc = "rendered" /\ view.kind = "margin" /\ view.selected_groups = GroupNames) =>
        /\ Len(view.df_margin) = Len(df_raw)
        /\ \A i \in 1..Len(df_raw) :
              ~IsNaN(df_raw[i].Margin_Percent) =>
                 /\ view.df_margin[i].Margin_Group = GroupClaimed(Val(df_raw[i].Margin_Percent))
                 /\ view.df_margin[i].Margin_Group \in GroupNames
                 /\ Cardinality({g \in 1..Len(MarginGroups) :
                        GroupFilter(df_raw[i].Margin_Percent, MarginGroups[g])}) = 1
                 /\ \E j \in 1..Len(view.df_filtered_margin) :
                        view.df_filtered_margin[j] = view.df_margin[i]

\* A margin page with all five groups over a workbook that has an item at
\* exactly 5%, and one far above the top group's stated maximum.
C5_Witness ==
    /\ pc = "rendered" /\ view.kind = "margin" /\ view.selected_groups = GroupNames
    /\ data_source = "file"
    /\ \E i \in 1..Len(view.df_margin) :
          /\ view.df_margin[i].Margin_Percent = Num([n |-> 500000, d |-> 100000])
          /\ view.df_margin[i].Margin_Group = "Low (5% to 10%)"
    /\ \E i \in 1..Len(view.df_margin) :
          /\ ~IsNaN(view.df_margin[i].Margin_Percent)
          /\ FracGE(Val(view.df_margin[i].Margin_Percent), 1000)

IsZeroPercent(m) == ~IsNaN(m) /\ Val(m).n = 0 /\ Val(m).d > 0
NotNegative(m) == IsNaN(m) \/ (Val(m).n >= 0 /\ Val(m).d >= 0)
PricesKnown(item) == ~IsNaN(item.Cost) /\ ~IsNaN(item.Selling)

\* C6: every item that sells below its cost has Margin_Percent exactly 0, and
\* no Margin_Percent is negative.
C6_BelowCostIsZero ==
    LoadedFromFile =>
        \A r \in 1..Len(df_raw) :
            /\ (PricesKnown(disk.rows[r]) /\ Val(disk.rows[r].Selling) < Val(disk.rows[r].Cost))
                   => IsZeroPercent(df_raw[r].Margin_Percent)
            /\ NotNegative(df_raw[r].Margin_Percent)

\* C8: a run whose workbook could not be opened says so and shows nothing
\* computed from other data.
C8_NoSubstitutedData ==
    (Loaded /\ file_path = UserPath /\ ~disk.exists) =>
        /\ "warning: failed to load file from path, falling back to mock data" \in messages
        /\ data_source # "mock"
        /\ df_raw = <<>> /\ df_melted = <<>>
        /\ view.item_data = <<>> /\ view.df_filtered = <<>> /\ view.df_margin = <<>>

\* The categories of the items a Sales Overview page shows
ShownCategories ==
    AllOf(view.item_data, "Category") \cup AllOf(view.df_filtered, "Category")

\* C9: the Sales Overview page shows no item of a category that is not
\* selected; with no category selected it shows no item and says that no data
\* matches, whatever was typed in the search box.
C9_OnlySelectedCategories ==
    (pc = "rendered" /\ view.page = "sales") =>
        /\ ShownCategories \subseteq view.selected_categories
        /\ view.selected_categories = {} =>
              /\ view.item_data = <<>> /\ view.df_filtered = <<>>
              /\ "info: no data matches the selected filters" \in messages

\* C10: the search matches an item by its barcode only when the barcode is
\* the term, and by its name when the name contains the term in any case.
SearchClaimed(row, term) ==
    \/ row.Item_Bar_Code = term
    \/ Contains(Lower(row.Item_Name), Lower(term))
C10_BarcodeExact ==
    (pc = "rendered" /\ view.page = "sales" /\ view.search_term # <<>>) =>
        /\ view.kind = "item details" <=>
              \E i \in 1..Len(df_raw) : SearchClaimed(df_raw[i], view.search_term)
        /\ view.kind = "item details" =>
              SearchClaimed(view.item_data[1], view.search_term)


\* The items of df_raw whose category and brand are selected on the page
SelectedItems ==
    SelectSeq(df_raw, LAMBDA it : /\ it.Category \in view.selected_categories
                                  /\ it.Brand \in view.selected_brands)
RECURSIVE SumTotals(_)
SumTotals(items) ==
    IF items = <<>> THEN 0 ELSE Head(items).Total_Sales + SumTotals(Tail(items))

\* C13: the total sales value the Sales Overview page shows for a category
\* and brand selection is the sum of Total_Sales over the items of df_raw
\* with a selected category and a selected brand.
C13_TotalMatchesBreakdown ==
    (pc = "rendered" /\ view.kind = "dashboard") =>
        view.total_sales = SumTotals(SelectedItems)

\* A dashboard over a workbook of two items with sales, one of them left out
\* by the category selection.
C13_Witness ==
    /\ pc = "rendered" /\ view.kind = "dashboard" /\ data_source = "file"
    /\ Len(df_raw) = 2
    /\ Len(SelectedItems) = 1
    /\ \A i \in 1..Len(df_raw) : df_raw[i].Total_Sales > 0
    /\ view.total_sales > 0
    /\ view.total_sales < SumTotals(df_raw)


\* C14: a page render, whatever the page and the selections, leaves df_raw
\* and df_melted as the load made them.
C14_RenderLeavesTables ==
    [][(pc = "loaded" /\ pc' = "rendered") =>
          (df_raw' = df_raw /\ df_melted' = df_melted)]_vars

\* A Margin Analysis page that labelled an item with one of the groups, over
\* loaded tables with items and long rows, df_raw without the label column.
C14_Witness ==
    /\ pc = "rendered" /\ view.kind = "margin"
    /\ df_raw # <<>> /\ df_melted # <<>>
    /\ \E i \in 1..Len(view.df_margin) : view.df_margin[i].Margin_Group \in GroupNames
    /\ \A i \in 1..Len(df_raw) : "Margin_Group" \notin DOMAIN df_raw[i]

====
